---- MODULE Spec2Model ----
(***************************************************************************)
(* Snakes & Ladders (src/SnakeAndLadder.cpp): the Board and its entities,  *)
(* the StandardSnakeAndLadderRules and the turn loop of                    *)
(* SnakeAndLadderGame::play, as a state machine.                           *)
(*                                                                         *)
(* A run follows main(): the board is populated (addBoardEntity), the game *)
(* is constructed over it, observers and players are registered and play() *)
(* is called. play() blocks on the console before every roll, so one loop  *)
(* iteration (one turn) is one step.                                       *)
(***************************************************************************)
EXTENDS Integers, Sequences, FiniteSets, TLC

VARIABLES
    cellCount,        \* Board::cellCount
    entitiesList,     \* Board::entitiesList, in insertion order
    entityMap,        \* Board::entityMap, start cell -> entity
    faceCount,        \* Dice::faceCount
    turnQueue,        \* SnakeAndLadderGame::turnQueue, front first
    currentPosition,  \* SnakeAndLadderPlayer::currentPosition, per player id
    winCount,         \* SnakeAndLadderPlayer::winCount, per player id
    subscriberList,   \* SnakeAndLadderGame::subscriberList, registration order
    isGameOver,       \* SnakeAndLadderGame::isGameOver
    pc,               \* "setup": populating the board; "idle": game built,
                      \* play() not running; "playing": inside play()'s loop
    turnNo,           \* turns taken by the running play(), modulo the players
    lastCall,         \* the operation of the last step and its inputs
    events,           \* what the last step did, in program order
    strategy          \* the BoardSetupStrategy applied to the board: its
                      \* fields and the locals of its setupBoard

vars == <<cellCount, entitiesList, entityMap, faceCount, turnQueue,
          currentPosition, winCount, subscriberList, isGameOver, pc, turnNo,
          lastCall, events, strategy>>

boardVars == <<cellCount, entitiesList, entityMap>>
playerVars == <<currentPosition, winCount>>

----------------------------------------------------------------------------
(* Bounds of the model *)

\* the boards are BoardSide x BoardSide (Board(int s))
BoardSides == {2}
\* entities a run places on the board
MaxEntities == 2
\* players a run registers
MaxPlayers == 2
\* observers a run registers
MaxObservers == 2

\* Dice(6) in every factory method
StandardFaceCount == 6

----------------------------------------------------------------------------
(* BoardEntity, Snake, Ladder *)

\* getEntity's nullptr
NoEntity == [kind |-> "NONE", start |-> 0, end |-> 0]

Snake(start, end) == [kind |-> "SNAKE", start |-> start, end |-> end]

Ladder(start, end) == [kind |-> "LADDER", start |-> start, end |-> end]

\* The (start, end) pairs a caller hands to the board of n cells. The
\* constructors admit any pair (a malformed one is only reported), so the
\* set holds a ladder and a snake that chain into each other, a ladder up to
\* the final cell, a snake down from the final cell, a ladder that ends
\* beyond the board and a snake that goes up.
Placements(n) ==
    { Ladder(1, n - 1), Snake(n - 1, 1), Ladder(2, n), Snake(n, 2),
      Ladder(1, n + 1), Snake(2, 3) }

----------------------------------------------------------------------------
(* Board *)

canAddEntity(map, position) == position \notin DOMAIN map

getEntity(map, position) ==
    IF position \in DOMAIN map THEN map[position] ELSE NoEntity

\* entityMap[boardEntity->getStart()] = boardEntity
MapPut(map, boardEntity) ==
    [c \in DOMAIN map \cup {boardEntity.start} |->
        IF c = boardEntity.start THEN boardEntity ELSE map[c]]

----------------------------------------------------------------------------
(* StandardSnakeAndLadderRules *)

\* variant: the final cell itself is refused
isValidMove_strict(currentPos, diceValue, boardSize) ==
    currentPos + diceValue < boardSize

\* variant: the bound is off by one
isValidMove_offByOne(currentPos, diceValue, boardSize) ==
    currentPos + diceValue <= boardSize + 1

isValidMove(currentPos, diceValue, boardSize) ==
    currentPos + diceValue <= boardSize

\* variant: the destination of a jump is looked up once more
calculateNewPosition_chained(currentPos, diceValue, map) ==
    LET newPos == currentPos + diceValue
        entity == getEntity(map, newPos)
        second == getEntity(map, entity.end)
    IN  IF entity # NoEntity
        THEN (IF second # NoEntity THEN second.end ELSE entity.end)
        ELSE newPos

calculateNewPosition(currentPos, diceValue, map) ==
    LET newPos == currentPos + diceValue
        entity == getEntity(map, newPos)
    IN  IF entity # NoEntity THEN entity.end ELSE newPos

\* variant: reaching or passing the final cell wins
checkWinCondition_atLeast(position, boardSize) == position >= boardSize

checkWinCondition(position, boardSize) == position = boardSize

----------------------------------------------------------------------------
(* SnakeAndLadderGame: notifications *)

Msg(text, player, at, to) ==
    [text |-> text, player |-> player, at |-> at, to |-> to]

Ev(what, who, msg) == [ev |-> what, who |-> who, msg |-> msg]

NoMsg == Msg("", 0, 0, 0)

\* variant: the subscribers are visited last to first
notify_reversed(subs, msg) ==
    [i \in 1..Len(subs) |-> Ev("update", subs[Len(subs) + 1 - i], msg)]

\* notify(msg): update(msg) on every subscriber, in list order
notify(subs, msg) == [i \in 1..Len(subs) |-> Ev("update", subs[i], msg)]

\* variant: pop_front without the push_back
Rotated_dropsFront(queue) == Tail(queue)

\* turnQueue.pop_front(); turnQueue.push_back(currentPlayer)
Rotated(queue) == Tail(queue) \o <<Head(queue)>>

NoCall == [op |-> "none", player |-> 0, from |-> 0, roll |-> 0,
           entity |-> NoEntity]

\* no strategy has been applied to the board
NoStrategy ==
    [kind |-> "none", phase |-> "none", base |-> 0,
     snakeCount |-> 0, ladderCount |-> 0,
     snakePlacements |-> <<>>, ladderPlacements |-> <<>>,
     i |-> 0, attemptCount |-> 0, snakesAdded |-> 0, laddersAdded |-> 0]

----------------------------------------------------------------------------
(* Initial state: Board(s) constructed, nothing placed; the game's fields  *)
(* as its constructor sets them.                                           *)

Init ==
    /\ cellCount \in {s * s : s \in BoardSides}
    /\ entitiesList = <<>>
    /\ entityMap = <<>>
    /\ faceCount = StandardFaceCount
    /\ turnQueue = <<>>
    /\ currentPosition = <<>>
    /\ winCount = <<>>
    /\ subscriberList = <<>>
    /\ isGameOver = FALSE
    /\ pc = "setup"
    /\ turnNo = 0
    /\ lastCall = NoCall
    /\ events = <<>>
    /\ strategy = NoStrategy

----------------------------------------------------------------------------
(* Board::addBoardEntity *)

\* variant: the entity is stored without asking canAddEntity
addBoardEntity_overwrite(boardEntity) ==
    /\ pc = "setup"
    /\ Len(entitiesList) < MaxEntities
    /\ entitiesList' = Append(entitiesList, boardEntity)
    /\ entityMap' = MapPut(entityMap, boardEntity)
    /\ lastCall' = [NoCall EXCEPT !.op = "addBoardEntity",
                                  !.entity = boardEntity]
    /\ events' = <<>>
    /\ UNCHANGED <<strategy, cellCount, faceCount, turnQueue, currentPosition, winCount,
                   subscriberList, isGameOver, pc, turnNo>>

addBoardEntity(boardEntity) ==
    /\ pc = "setup"
    /\ Len(entitiesList) < MaxEntities
    /\ IF canAddEntity(entityMap, boardEntity.start)
       THEN /\ entitiesList' = Append(entitiesList, boardEntity)
            /\ entityMap' = MapPut(entityMap, boardEntity)
       ELSE UNCHANGED <<entitiesList, entityMap>>
    /\ lastCall' = [NoCall EXCEPT !.op = "addBoardEntity",
                                  !.entity = boardEntity]
    /\ events' = <<>>
    /\ UNCHANGED <<strategy, cellCount, faceCount, turnQueue, currentPosition, winCount,
                   subscriberList, isGameOver, pc, turnNo>>

\* SnakeAndLadderGame(Board*, Dice*): the board is handed to the game
NewGame ==
    /\ pc = "setup"
    /\ pc' = "idle"
    /\ isGameOver' = FALSE
    /\ lastCall' = [NoCall EXCEPT !.op = "newGame"]
    /\ events' = <<>>
    /\ UNCHANGED <<strategy, boardVars, faceCount, turnQueue, playerVars,
                   subscriberList, turnNo>>

\* addObserver, called by main before the players are created
addObserver ==
    /\ pc = "idle"
    /\ turnQueue = <<>>
    /\ Len(subscriberList) < MaxObservers
    /\ subscriberList' = Append(subscriberList, Len(subscriberList) + 1)
    /\ lastCall' = [NoCall EXCEPT !.op = "addObserver"]
    /\ events' = <<>>
    /\ UNCHANGED <<strategy, boardVars, faceCount, turnQueue, playerVars, isGameOver,
                   pc, turnNo>>

\* new SnakeAndLadderPlayer(i+1, name); addPlayer(player)
addPlayer ==
    /\ pc = "idle"
    /\ Len(turnQueue) < MaxPlayers
    /\ LET id == Len(currentPosition) + 1
       IN  /\ currentPosition' = Append(currentPosition, 0)
           /\ winCount' = Append(winCount, 0)
           /\ turnQueue' = Append(turnQueue, id)
           /\ lastCall' = [NoCall EXCEPT !.op = "addPlayer", !.player = id]
    /\ events' = <<>>
    /\ UNCHANGED <<strategy, boardVars, faceCount, subscriberList, isGameOver, pc,
                   turnNo>>

----------------------------------------------------------------------------
(* SnakeAndLadderGame::play *)

GameInitiated == Msg("Game initiated.", 0, 0, 0)

\* variant: the observers are told before the players are counted
playRefused_notifiesFirst ==
    /\ pc = "idle"
    /\ Len(turnQueue) < 2
    /\ lastCall' = [NoCall EXCEPT !.op = "play"]
    /\ events' = notify(subscriberList, GameInitiated)
    /\ UNCHANGED <<strategy, boardVars, faceCount, turnQueue, playerVars,
                   subscriberList, isGameOver, pc, turnNo>>

\* fewer than 2 players: report on the console and return
playRefused ==
    /\ pc = "idle"
    /\ Len(turnQueue) < 2
    /\ lastCall' = [NoCall EXCEPT !.op = "play"]
    /\ events' = <<>>
    /\ UNCHANGED <<strategy, boardVars, faceCount, turnQueue, playerVars,
                   subscriberList, isGameOver, pc, turnNo>>

\* variant: the loop body runs before isGameOver is tested
playStart_doWhile ==
    /\ pc = "idle"
    /\ Len(turnQueue) >= 2
    /\ events' = notify(subscriberList, GameInitiated)
    /\ pc' = "playing"
    /\ turnNo' = 0
    /\ lastCall' = [NoCall EXCEPT !.op = "play"]
    /\ UNCHANGED <<strategy, boardVars, faceCount, turnQueue, playerVars,
                   subscriberList, isGameOver>>

\* notify("Game initiated."), display, first test of while(!isGameOver)
playStart ==
    /\ pc = "idle"
    /\ Len(turnQueue) >= 2
    /\ events' = notify(subscriberList, GameInitiated)
    /\ pc' = IF isGameOver THEN "idle" ELSE "playing"
    /\ turnNo' = 0
    /\ lastCall' = [NoCall EXCEPT !.op = "play"]
    /\ UNCHANGED <<strategy, boardVars, faceCount, turnQueue, playerVars,
                   subscriberList, isGameOver>>

\* the notification of a jump taken at intermediatePos
JumpMsg(player, entity, intermediatePos, newPos) ==
    IF entity.kind = "SNAKE"
    THEN Msg("encountered a snake", player, intermediatePos, newPos)
    ELSE Msg("encountered a ladder", player, intermediatePos, newPos)

MoveMsg(player, newPos) == Msg("completed a move", player, 0, newPos)

WinMsg(player) == Msg("Game concluded", player, 0, 0)

\* variant: the winner is rotated to the back like everyone else
declareWin_thenRotate(currentPlayer) ==
    /\ winCount' = [winCount EXCEPT ![currentPlayer] = @ + 1]
    /\ isGameOver' = TRUE
    /\ turnQueue' = Rotated(turnQueue)

\* the win branch: incrementScore, notify, isGameOver = true
declareWin(currentPlayer) ==
    /\ winCount' = [winCount EXCEPT ![currentPlayer] = @ + 1]
    /\ isGameOver' = TRUE
    /\ UNCHANGED turnQueue

\* the other branch: move the player to the back of the queue
passTurn ==
    /\ turnQueue' = Rotated(turnQueue)
    /\ UNCHANGED <<winCount, isGameOver>>

\* variant: setPosition is called on the player at the back of the queue
LegalMove_movesLast(currentPlayer, currentPos, rollValue) ==
    LET intermediatePos == currentPos + rollValue
        newPos == calculateNewPosition(currentPos, rollValue, entityMap)
        entity == getEntity(entityMap, intermediatePos)
        won == checkWinCondition(newPos, cellCount)
    IN  /\ currentPosition' =
              [currentPosition EXCEPT ![turnQueue[Len(turnQueue)]] = newPos]
        /\ IF won THEN declareWin(currentPlayer) ELSE passTurn
        /\ events' =
              <<Ev("setPosition", currentPlayer, NoMsg)>>
              \o (IF entity # NoEntity
                  THEN notify(subscriberList,
                              JumpMsg(currentPlayer, entity, intermediatePos, newPos))
                  ELSE <<>>)
              \o notify(subscriberList, MoveMsg(currentPlayer, newPos))
              \o (IF won
                  THEN <<Ev("incrementScore", currentPlayer, NoMsg)>>
                       \o notify(subscriberList, WinMsg(currentPlayer))
                       \o <<Ev("gameOver", currentPlayer, NoMsg)>>
                  ELSE <<Ev("rotate", currentPlayer, NoMsg)>>)

\* variant: the win is tested on the cell landed on, before the jump
LegalMove_winBeforeJump(currentPlayer, currentPos, rollValue) ==
    LET intermediatePos == currentPos + rollValue
        newPos == calculateNewPosition(currentPos, rollValue, entityMap)
        entity == getEntity(entityMap, intermediatePos)
        won == checkWinCondition(intermediatePos, cellCount)
    IN  /\ currentPosition' = [currentPosition EXCEPT ![currentPlayer] = newPos]
        /\ IF won THEN declareWin(currentPlayer) ELSE passTurn
        /\ events' =
              <<Ev("setPosition", currentPlayer, NoMsg)>>
              \o (IF entity # NoEntity
                  THEN notify(subscriberList,
                              JumpMsg(currentPlayer, entity, intermediatePos, newPos))
                  ELSE <<>>)
              \o notify(subscriberList, MoveMsg(currentPlayer, newPos))
              \o (IF won
                  THEN <<Ev("incrementScore", currentPlayer, NoMsg)>>
                       \o notify(subscriberList, WinMsg(currentPlayer))
                       \o <<Ev("gameOver", currentPlayer, NoMsg)>>
                  ELSE <<Ev("rotate", currentPlayer, NoMsg)>>)

\* a legal move, from setPosition to the end of the iteration
LegalMove(currentPlayer, currentPos, rollValue) ==
    LET intermediatePos == currentPos + rollValue
        newPos == calculateNewPosition(currentPos, rollValue, entityMap)
        entity == getEntity(entityMap, intermediatePos)
        won == checkWinCondition(newPos, cellCount)
    IN  /\ currentPosition' = [currentPosition EXCEPT ![currentPlayer] = newPos]
        /\ IF won THEN declareWin(currentPlayer) ELSE passTurn
        /\ events' =
              <<Ev("setPosition", currentPlayer, NoMsg)>>
              \o (IF entity # NoEntity
                  THEN notify(subscriberList,
                              JumpMsg(currentPlayer, entity, intermediatePos, newPos))
                  ELSE <<>>)
              \o notify(subscriberList, MoveMsg(currentPlayer, newPos))
              \o (IF won
                  THEN <<Ev("incrementScore", currentPlayer, NoMsg)>>
                       \o notify(subscriberList, WinMsg(currentPlayer))
                       \o <<Ev("gameOver", currentPlayer, NoMsg)>>
                  ELSE <<Ev("rotate", currentPlayer, NoMsg)>>)

\* variant: the forfeited turn leaves the player at the front
IllegalMove_noRotation(currentPlayer) ==
    /\ events' = <<>>
    /\ UNCHANGED <<turnQueue, playerVars, isGameOver>>

\* the roll overshoots the final cell: console message, rotate
IllegalMove(currentPlayer) ==
    /\ turnQueue' = Rotated(turnQueue)
    /\ events' = <<Ev("rotate", currentPlayer, NoMsg)>>
    /\ UNCHANGED <<playerVars, isGameOver>>

\* one iteration of while(!isGameOver), and the test that follows it
Turn(rollValue) ==
    /\ pc = "playing"
    /\ LET currentPlayer == Head(turnQueue)
           currentPos == currentPosition[currentPlayer]
       IN  /\ IF isValidMove(currentPos, rollValue, cellCount)
              THEN LegalMove(currentPlayer, currentPos, rollValue)
              ELSE IllegalMove(currentPlayer)
           /\ lastCall' = [NoCall EXCEPT !.op = "turn",
                                         !.player = currentPlayer,
                                         !.from = currentPos,
                                         !.roll = rollValue]
    /\ pc' = IF isGameOver' THEN "idle" ELSE "playing"
    /\ turnNo' = (turnNo + 1) % Len(turnQueue)
    /\ UNCHANGED <<strategy, boardVars, faceCount, subscriberList>>

\* Dice::roll: (rand() % faceCount) + 1
DiceRolls == 1..faceCount

Next ==
    \/ \E e \in Placements(cellCount) : addBoardEntity(e)
    \/ NewGame
    \/ addObserver
    \/ addPlayer
    \/ playRefused
    \/ playStart
    \/ \E r \in DiceRolls : Turn(r)

Spec == Init /\ [][Next]_vars

----------------------------------------------------------------------------
(* Board setup strategies. A strategy works on the Board alone; the specs  *)
(* below start from a board that earlier placements may have filled in     *)
(* part, and apply one strategy to it.                                     *)

\* a board as a value: entitiesList and entityMap
BoardOf(list, map) == [list |-> list, map |-> map]

\* Board::addBoardEntity as a function of the board
withEntity(board, boardEntity) ==
    IF canAddEntity(board.map, boardEntity.start)
    THEN BoardOf(Append(board.list, boardEntity),
                 MapPut(board.map, boardEntity))
    ELSE board

\* addBoardEntity for every entity of a sequence, first to last
RECURSIVE withEntities(_, _)
withEntities(board, seq) ==
    IF seq = <<>> THEN board
    ELSE withEntities(withEntity(board, Head(seq)), Tail(seq))

\* snakes on every cell of a..b, each down to cell 1
SnakeRow(a, b) == [k \in 1..(b - a + 1) |-> Snake(a + k - 1, 1)]

\* ladders on every cell of a..b, each up by one cell
LadderRow(a, b) == [k \in 1..(b - a + 1) |-> Ladder(a + k - 1, a + k)]

\* what the board of n cells holds before the strategy runs: nothing; all
\* snake start cells but cell 10; all snake start cells; all ladder start
\* cells but cell 1; every start cell either strategy can draw
Prefills(n) ==
    { <<>>, SnakeRow(11, n - 1), SnakeRow(10, n - 1), LadderRow(2, n - 10),
      SnakeRow(10, n - 1) \o LadderRow(1, 9) }

\* the boards of the specifications that run a strategy with random draws:
\* totalCells - 10 must be positive for rand() % (totalCells - 10), which
\* CustomCount evaluates on every board and Random on boards with a slot
CustomSides == {4}
RandomSides == {3, 5}

InitSetup(sides) ==
    /\ cellCount \in {side * side : side \in sides}
    /\ \E pre \in Prefills(cellCount) :
          LET board == withEntities(BoardOf(<<>>, <<>>), pre)
          IN  /\ entitiesList = board.list
              /\ entityMap = board.map
    /\ faceCount = StandardFaceCount
    /\ turnQueue = <<>>
    /\ currentPosition = <<>>
    /\ winCount = <<>>
    /\ subscriberList = <<>>
    /\ isGameOver = FALSE
    /\ pc = "setup"
    /\ turnNo = 0
    /\ lastCall = NoCall
    /\ events = <<>>
    /\ strategy = NoStrategy

gameVars == <<cellCount, faceCount, turnQueue, currentPosition, winCount,
              subscriberList, isGameOver, pc, turnNo, events>>

\* the board becomes b
SetBoard(b) == entitiesList' = b.list /\ entityMap' = b.map

\* rand() % m for the non-negative rand() and a positive m
Rem(r, m) == r % m

\* sequences over S of length at most k
SeqsUpTo(S, k) == UNION {[1..m -> S] : m \in 0..k}

\* the snakeCount and ladderCount a caller constructs CustomCount with
CountChoices == 0..2

----------------------------------------------------------------------------
(* CustomCountBoardSetupStrategy, caller-supplied positions *)

\* the (start, end) pairs a caller supplies for a board of n cells: two
\* with the same start in the snakes' range, two with the same start in
\* the ladders' range
PairChoices(n) == { <<n - 4, 3>>, <<n - 4, 5>>, <<3, n - 4>>, <<3, n - 2>> }

SnakesOf(pairs) == [k \in 1..Len(pairs) |-> Snake(pairs[k][1], pairs[k][2])]

LaddersOf(pairs) == [k \in 1..Len(pairs) |-> Ladder(pairs[k][1], pairs[k][2])]

\* variant: the ladder pairs are placed before the snake pairs
placedBoard_laddersFirst(board, snakes, ladders) ==
    withEntities(withEntities(board, LaddersOf(ladders)), SnakesOf(snakes))

\* the two loops over snakePlacements and ladderPlacements
placedBoard(board, snakes, ladders) ==
    withEntities(withEntities(board, SnakesOf(snakes)), LaddersOf(ladders))

\* setupBoard with useRandomPlacement = false
customPlacedSetup(snakes, ladders) ==
    /\ pc = "setup"
    /\ strategy.kind = "none"
    /\ SetBoard(placedBoard(BoardOf(entitiesList, entityMap), snakes, ladders))
    /\ strategy' = [NoStrategy EXCEPT !.kind = "customPlaced",
                                      !.phase = "done",
                                      !.base = Len(entitiesList),
                                      !.snakeCount = Len(snakes),
                                      !.ladderCount = Len(ladders),
                                      !.snakePlacements = snakes,
                                      !.ladderPlacements = ladders]
    /\ lastCall' = [NoCall EXCEPT !.op = "setupBoard"]
    /\ UNCHANGED gameVars

----------------------------------------------------------------------------
(* StandardBoardSetupStrategy *)

\* variant: the ladder from 78 is typed one cell too far, onto a snake's head
StandardEntities_chained ==
    << Snake(99, 54), Snake(95, 75), Snake(92, 88), Snake(89, 68),
       Snake(74, 53), Snake(64, 60), Snake(62, 19), Snake(49, 11),
       Snake(46, 25), Snake(16, 6),
       Ladder(2, 38), Ladder(7, 14), Ladder(8, 31), Ladder(15, 26),
       Ladder(21, 42), Ladder(28, 84), Ladder(36, 44), Ladder(51, 67),
       Ladder(71, 91), Ladder(78, 99), Ladder(87, 94) >>

StandardEntities ==
    << Snake(99, 54), Snake(95, 75), Snake(92, 88), Snake(89, 68),
       Snake(74, 53), Snake(64, 60), Snake(62, 19), Snake(49, 11),
       Snake(46, 25), Snake(16, 6),
       Ladder(2, 38), Ladder(7, 14), Ladder(8, 31), Ladder(15, 26),
       Ladder(21, 42), Ladder(28, 84), Ladder(36, 44), Ladder(51, 67),
       Ladder(71, 91), Ladder(78, 98), Ladder(87, 94) >>

\* variant: the board size is not looked at
standardSetup_anyBoard ==
    /\ pc = "setup"
    /\ strategy.kind = "none"
    /\ SetBoard(withEntities(BoardOf(entitiesList, entityMap),
                             StandardEntities))
    /\ strategy' = [NoStrategy EXCEPT !.kind = "standard", !.phase = "done",
                                      !.base = Len(entitiesList)]
    /\ lastCall' = [NoCall EXCEPT !.op = "setupBoard"]
    /\ UNCHANGED gameVars

standardSetup ==
    /\ pc = "setup"
    /\ strategy.kind = "none"
    /\ IF cellCount # 100
       THEN UNCHANGED <<entitiesList, entityMap>>
       ELSE SetBoard(withEntities(BoardOf(entitiesList, entityMap),
                                  StandardEntities))
    /\ strategy' = [NoStrategy EXCEPT !.kind = "standard", !.phase = "done",
                                      !.base = Len(entitiesList)]
    /\ lastCall' = [NoCall EXCEPT !.op = "setupBoard"]
    /\ UNCHANGED gameVars

----------------------------------------------------------------------------
(* CustomCountBoardSetupStrategy, random placement. One step is one        *)
(* iteration of a while loop: two calls of rand(), the test, the placement.*)

\* the values rand() takes for a start index: every residue of
\* totalCells - 10
StartDraws(n) == 0..(n - 11)

\* the values rand() takes for an end index: the smallest, and one that
\* makes a ladder from cell 1 end on totalCells
EndDraws(n) == {0, n - 2}

\* where setupBoard stands once snakesAdded snakes and laddersAdded ladders
\* are placed
customPhase(snakesAdded, laddersAdded, snakeCount, ladderCount) ==
    IF snakesAdded < snakeCount THEN "snakes"
    ELSE IF laddersAdded < ladderCount THEN "ladders"
    ELSE "done"

\* setupBoard with useRandomPlacement = true, up to the first loop test
customRandomStart(snakes, ladders) ==
    /\ pc = "setup"
    /\ strategy.kind = "none"
    /\ strategy' = [NoStrategy EXCEPT
                       !.kind = "customRandom",
                       !.phase = customPhase(0, 0, snakes, ladders),
                       !.base = Len(entitiesList),
                       !.snakeCount = snakes,
                       !.ladderCount = ladders]
    /\ lastCall' = [NoCall EXCEPT !.op = "setupBoard"]
    /\ UNCHANGED <<entitiesList, entityMap, gameVars>>

\* variant: snakesAdded is counted for every attempt
customSnakeAttempt_countsAll(r1, r2) ==
    /\ pc = "setup"
    /\ strategy.kind = "customRandom"
    /\ strategy.phase = "snakes"
    /\ LET totalCells == cellCount
           startIdx == Rem(r1, totalCells - 10) + 10
           endIdx == Rem(r2, startIdx - 1) + 1
           added == strategy.snakesAdded + 1
       IN  /\ SetBoard(withEntity(BoardOf(entitiesList, entityMap),
                                  Snake(startIdx, endIdx)))
           /\ strategy' = [strategy EXCEPT
                              !.snakesAdded = added,
                              !.phase = customPhase(added, 0,
                                                    strategy.snakeCount,
                                                    strategy.ladderCount)]
    /\ lastCall' = [NoCall EXCEPT !.op = "customSnakeAttempt"]
    /\ UNCHANGED gameVars

\* one iteration of while(snakesAdded < snakeCount)
customSnakeAttempt(r1, r2) ==
    /\ pc = "setup"
    /\ strategy.kind = "customRandom"
    /\ strategy.phase = "snakes"
    /\ LET totalCells == cellCount
           startIdx == Rem(r1, totalCells - 10) + 10
           endIdx == Rem(r2, startIdx - 1) + 1
           added == strategy.snakesAdded + 1
       IN  IF canAddEntity(entityMap, startIdx)
           THEN /\ SetBoard(withEntity(BoardOf(entitiesList, entityMap),
                                       Snake(startIdx, endIdx)))
                /\ strategy' = [strategy EXCEPT
                                   !.snakesAdded = added,
                                   !.phase = customPhase(added, 0,
                                                         strategy.snakeCount,
                                                         strategy.ladderCount)]
           ELSE UNCHANGED <<entitiesList, entityMap, strategy>>
    /\ lastCall' = [NoCall EXCEPT !.op = "customSnakeAttempt"]
    /\ UNCHANGED gameVars

\* variant: the end test is written the wrong way round
customLadderAttempt_endTestInverted(r1, r2) ==
    /\ pc = "setup"
    /\ strategy.kind = "customRandom"
    /\ strategy.phase = "ladders"
    /\ LET totalCells == cellCount
           startIdx == Rem(r1, totalCells - 10) + 1
           endIdx == Rem(r2, totalCells - startIdx) + startIdx + 1
           added == strategy.laddersAdded + 1
       IN  IF canAddEntity(entityMap, startIdx) /\ endIdx > totalCells
           THEN /\ SetBoard(withEntity(BoardOf(entitiesList, entityMap),
                                       Ladder(startIdx, endIdx)))
                /\ strategy' = [strategy EXCEPT
                                   !.laddersAdded = added,
                                   !.phase = customPhase(strategy.snakeCount,
                                                         added,
                                                         strategy.snakeCount,
                                                         strategy.ladderCount)]
           ELSE UNCHANGED <<entitiesList, entityMap, strategy>>
    /\ lastCall' = [NoCall EXCEPT !.op = "customLadderAttempt"]
    /\ UNCHANGED gameVars

\* one iteration of while(laddersAdded < ladderCount)
customLadderAttempt(r1, r2) ==
    /\ pc = "setup"
    /\ strategy.kind = "customRandom"
    /\ strategy.phase = "ladders"
    /\ LET totalCells == cellCount
           startIdx == Rem(r1, totalCells - 10) + 1
           endIdx == Rem(r2, totalCells - startIdx) + startIdx + 1
           added == strategy.laddersAdded + 1
       IN  IF canAddEntity(entityMap, startIdx) /\ endIdx < totalCells
           THEN /\ SetBoard(withEntity(BoardOf(entitiesList, entityMap),
                                       Ladder(startIdx, endIdx)))
                /\ strategy' = [strategy EXCEPT
                                   !.laddersAdded = added,
                                   !.phase = customPhase(strategy.snakeCount,
                                                         added,
                                                         strategy.snakeCount,
                                                         strategy.ladderCount)]
           ELSE UNCHANGED <<entitiesList, entityMap, strategy>>
    /\ lastCall' = [NoCall EXCEPT !.op = "customLadderAttempt"]
    /\ UNCHANGED gameVars

InitCustom == InitSetup(CustomSides)

NextCustom ==
    \/ \E snakes, ladders \in SeqsUpTo(PairChoices(cellCount), 2) :
          customPlacedSetup(snakes, ladders)
    \/ standardSetup
    \/ \E snakes, ladders \in CountChoices : customRandomStart(snakes, ladders)
    \/ \E r1 \in StartDraws(cellCount), r2 \in EndDraws(cellCount) :
          customSnakeAttempt(r1, r2)
    \/ \E r1 \in StartDraws(cellCount), r2 \in EndDraws(cellCount) :
          customLadderAttempt(r1, r2)

SpecCustom == InitCustom /\ [][NextCustom]_vars

\* an iteration whose draw hits a free start cell (and, for a ladder, an end
\* below totalCells)
SnakePlaced ==
    \E r1 \in StartDraws(cellCount), r2 \in EndDraws(cellCount) :
        customSnakeAttempt(r1, r2) /\ strategy'.snakesAdded > strategy.snakesAdded

LadderPlaced ==
    \E r1 \in StartDraws(cellCount), r2 \in EndDraws(cellCount) :
        customLadderAttempt(r1, r2)
           /\ strategy'.laddersAdded > strategy.laddersAdded

\* fair draws: while some draw would place an entity, one eventually does
SpecCustomFair ==
    SpecCustom /\ WF_vars(SnakePlaced) /\ WF_vars(LadderPlaced)

----------------------------------------------------------------------------
(* RandomBoardSetupStrategy. One step is the head of the for loop (the     *)
(* draw of randomVal and the choice of a branch), one iteration of a while *)
(* loop, or the exit of a while loop whose attempts are used up.           *)

\* while(attemptCount < 50)
MaxAttempts == 50

\* int entityCount = totalCells / 10
entityCount(totalCells) == totalCells \div 10

\* where setupWithProbability stands once i slots are finished
randomPhase(i, totalCells) ==
    IF i < entityCount(totalCells) THEN "for" ELSE "done"

\* setupBoard(board) up to the first test of the for loop; every difficulty
\* calls setupWithProbability with a probability strictly between 0 and 1
randomSetupStart ==
    /\ pc = "setup"
    /\ strategy.kind = "none"
    /\ strategy' = [NoStrategy EXCEPT
                       !.kind = "random",
                       !.phase = randomPhase(0, cellCount),
                       !.base = Len(entitiesList)]
    /\ lastCall' = [NoCall EXCEPT !.op = "setupBoard"]
    /\ UNCHANGED <<entitiesList, entityMap, gameVars>>

\* randomVal < snakeProbability, or not: either can happen at any difficulty
randomChoose(isSnake) ==
    /\ pc = "setup"
    /\ strategy.kind = "random"
    /\ strategy.phase = "for"
    /\ strategy' = [strategy EXCEPT
                       !.phase = IF isSnake THEN "snake" ELSE "ladder",
                       !.attemptCount = 0]
    /\ lastCall' = [NoCall EXCEPT !.op = "randomChoose"]
    /\ UNCHANGED <<entitiesList, entityMap, gameVars>>

\* break, or the while test failing: the for loop goes to its next slot
nextSlot(st, totalCells) ==
    [st EXCEPT !.i = st.i + 1,
               !.attemptCount = 0,
               !.phase = randomPhase(st.i + 1, totalCells)]

\* variant: a failed attempt is not counted
randomSnakeAttempt_uncounted(r1, r2) ==
    /\ pc = "setup"
    /\ strategy.kind = "random"
    /\ strategy.phase = "snake"
    /\ strategy.attemptCount < MaxAttempts
    /\ LET totalCells == cellCount
           startIdx == Rem(r1, totalCells - 10) + 10
           endIdx == Rem(r2, startIdx - 1) + 1
       IN  IF canAddEntity(entityMap, startIdx)
           THEN /\ SetBoard(withEntity(BoardOf(entitiesList, entityMap),
                                       Snake(startIdx, endIdx)))
                /\ strategy' = nextSlot(strategy, totalCells)
           ELSE UNCHANGED <<entitiesList, entityMap, strategy>>
    /\ lastCall' = [NoCall EXCEPT !.op = "randomSnakeAttempt"]
    /\ UNCHANGED gameVars

\* one iteration of the snake branch's while(attemptCount < 50)
randomSnakeAttempt(r1, r2) ==
    /\ pc = "setup"
    /\ strategy.kind = "random"
    /\ strategy.phase = "snake"
    /\ strategy.attemptCount < MaxAttempts
    /\ LET totalCells == cellCount
           startIdx == Rem(r1, totalCells - 10) + 10
           endIdx == Rem(r2, startIdx - 1) + 1
       IN  IF canAddEntity(entityMap, startIdx)
           THEN /\ SetBoard(withEntity(BoardOf(entitiesList, entityMap),
                                       Snake(startIdx, endIdx)))
                /\ strategy' = nextSlot(strategy, totalCells)
           ELSE /\ strategy' = [strategy EXCEPT
                                   !.attemptCount = strategy.attemptCount + 1]
                /\ UNCHANGED <<entitiesList, entityMap>>
    /\ lastCall' = [NoCall EXCEPT !.op = "randomSnakeAttempt"]
    /\ UNCHANGED gameVars

\* variant: the ladder's end is not compared with totalCells
randomLadderAttempt_anyEnd(r1, r2) ==
    /\ pc = "setup"
    /\ strategy.kind = "random"
    /\ strategy.phase = "ladder"
    /\ strategy.attemptCount < MaxAttempts
    /\ LET totalCells == cellCount
           startIdx == Rem(r1, totalCells - 10) + 1
           endIdx == Rem(r2, totalCells - startIdx) + startIdx + 1
       IN  IF canAddEntity(entityMap, startIdx)
           THEN /\ SetBoard(withEntity(BoardOf(entitiesList, entityMap),
                                       Ladder(startIdx, endIdx)))
                /\ strategy' = nextSlot(strategy, totalCells)
           ELSE /\ strategy' = [strategy EXCEPT
                                   !.attemptCount = strategy.attemptCount + 1]
                /\ UNCHANGED <<entitiesList, entityMap>>
    /\ lastCall' = [NoCall EXCEPT !.op = "randomLadderAttempt"]
    /\ UNCHANGED gameVars

\* one iteration of the ladder branch's while(attemptCount < 50)
randomLadderAttempt(r1, r2) ==
    /\ pc = "setup"
    /\ strategy.kind = "random"
    /\ strategy.phase = "ladder"
    /\ strategy.attemptCount < MaxAttempts
    /\ LET totalCells == cellCount
           startIdx == Rem(r1, totalCells - 10) + 1
           endIdx == Rem(r2, totalCells - startIdx) + startIdx + 1
       IN  IF canAddEntity(entityMap, startIdx) /\ endIdx < totalCells
           THEN /\ SetBoard(withEntity(BoardOf(entitiesList, entityMap),
                                       Ladder(startIdx, endIdx)))
                /\ strategy' = nextSlot(strategy, totalCells)
           ELSE /\ strategy' = [strategy EXCEPT
                                   !.attemptCount = strategy.attemptCount + 1]
                /\ UNCHANGED <<entitiesList, entityMap>>
    /\ lastCall' = [NoCall EXCEPT !.op = "randomLadderAttempt"]
    /\ UNCHANGED gameVars

\* the while test fails: the slot is given up
randomAbandon ==
    /\ pc = "setup"
    /\ strategy.kind = "random"
    /\ strategy.phase \in {"snake", "ladder"}
    /\ strategy.attemptCount >= MaxAttempts
    /\ strategy' = nextSlot(strategy, cellCount)
    /\ lastCall' = [NoCall EXCEPT !.op = "randomAbandon"]
    /\ UNCHANGED <<entitiesList, entityMap, gameVars>>

InitRandom == InitSetup(RandomSides)

NextRandom ==
    \/ randomSetupStart
    \/ \E isSnake \in BOOLEAN : randomChoose(isSnake)
    \/ \E r1 \in StartDraws(cellCount), r2 \in EndDraws(cellCount) :
          randomSnakeAttempt(r1, r2)
    \/ \E r1 \in StartDraws(cellCount), r2 \in EndDraws(cellCount) :
          randomLadderAttempt(r1, r2)
    \/ randomAbandon

SpecRandom == InitRandom /\ [][NextRandom]_vars

\* the call keeps running: it never stops in the middle of setupBoard
SpecRandomRuns == SpecRandom /\ WF_vars(NextRandom)

----------------------------------------------------------------------------
(* The standard game: createStandardGame's 10x10 board, the standard     *)
(* strategy, a 6-faced dice, and the fewest players play() accepts.        *)

\* new Board(10)
StandardSides == {10}

\* if(turnQueue.size() < 2)
MinPlayers == 2

InitStandard ==
    /\ cellCount \in {side * side : side \in StandardSides}
    /\ entitiesList = <<>>
    /\ entityMap = <<>>
    /\ faceCount = StandardFaceCount
    /\ turnQueue = <<>>
    /\ currentPosition = <<>>
    /\ winCount = <<>>
    /\ subscriberList = <<>>
    /\ isGameOver = FALSE
    /\ pc = "setup"
    /\ turnNo = 0
    /\ lastCall = NoCall
    /\ events = <<>>
    /\ strategy = NoStrategy

NextStandard ==
    \/ standardSetup
    \/ strategy.kind = "standard" /\ NewGame
    \/ Len(turnQueue) < MinPlayers /\ addPlayer
    \/ playStart
    \/ \E r \in DiceRolls : Turn(r)

SpecStandard == InitStandard /\ [][NextStandard]_vars

\* the entity map of the standard board
StandardMap == withEntities(BoardOf(<<>>, <<>>), StandardEntities).map

\* the cells of the standard board
StandardCells == 0..100

\* the cells from which some roll is legal and leads into the set S
OneRollFrom(S) ==
    {c \in StandardCells :
        \E r \in 1..StandardFaceCount :
            /\ isValidMove(c, r, 100)
            /\ calculateNewPosition(c, r, StandardMap) \in S}

\* levels[k]: the cells from which the final cell is reached in fewer than k
\* rolls, up to the level that adds none
RECURSIVE LevelsFrom(_)
LevelsFrom(levels) ==
    LET last == levels[Len(levels)]
        more == last \cup OneRollFrom(last)
    IN  IF more = last THEN levels ELSE LevelsFrom(Append(levels, more))

StandardLevels == LevelsFrom(<< {c \in StandardCells : checkWinCondition(c, 100)} >>)

\* the cells from which a player can still reach the final cell
WinnableCells == StandardLevels[Len(StandardLevels)]

\* the fewest rolls that take a player from each winnable cell to the final
\* cell
RollsToWin ==
    [c \in WinnableCells |->
        (CHOOSE k \in 1..Len(StandardLevels) :
            /\ c \in StandardLevels[k]
            /\ \A j \in 1..(k - 1) : c \notin StandardLevels[j]) - 1]

\* a turn in which the player k rolls from the final cell gets one roll closer
GoodTurn(k) ==
    /\ pc = "playing"
    /\ currentPosition[Head(turnQueue)] \in WinnableCells
    /\ RollsToWin[currentPosition[Head(turnQueue)]] = k
    /\ \E r \in DiceRolls :
          /\ Turn(r)
          /\ currentPosition'[Head(turnQueue)] \in WinnableCells
          /\ RollsToWin[currentPosition'[Head(turnQueue)]] = k - 1

\* fair dice: a roll that is possible again and again is rolled
SpecStandardFair ==
    SpecStandard /\ \A k \in 1..(Len(StandardLevels) - 1) : SF_vars(GoodTurn(k))

----------------------------------------------------------------------------
(* Properties *)

\* the step taken is an iteration of play()'s loop
TurnStep == pc = "playing" /\ lastCall'.op = "turn"

\* the state is the one a turn has just produced
AfterTurn == lastCall.op = "turn"

\* the cell the last roll pointed at, before any jump
Landed == lastCall.from + lastCall.roll

\* the entities placed on the board that start at cell c
EntitiesAt(c) ==
    {entitiesList[i] : i \in {j \in 1..Len(entitiesList) : entitiesList[j].start = c}}

\* update(msg) reached subscriber s during the last step
Delivered(s, msg) ==
    \E k \in 1..Len(events) : events[k] = Ev("update", s, msg)

Subscribers == {subscriberList[i] : i \in 1..Len(subscriberList)}

Players == 1..Len(currentPosition)

\* C1: a turn declares a win (isGameOver set, the winner announced to every
\* subscriber) if and only if the roll is legal and the position after jump
\* resolution is exactly the board size; an overshooting roll never wins.
C1_WinIffExactLanding ==
    AfterTurn =>
        LET legal == Landed <= cellCount
            newPos == currentPosition[lastCall.player]
            announced == \E k \in 1..Len(events) :
                            events[k].msg = WinMsg(lastCall.player)
        IN  /\ isGameOver <=> (legal /\ newPos = cellCount)
            /\ isGameOver =>
                  \A s \in Subscribers : Delivered(s, WinMsg(lastCall.player))
            /\ announced => isGameOver
            /\ Landed > cellCount => ~isGameOver /\ ~announced

\* a win reached through a jump: the roll pointed below the final cell
C1_Witness ==
    /\ AfterTurn
    /\ isGameOver
    /\ Landed < cellCount
    /\ subscriberList # <<>>

\* C2: calculateNewPosition returns currentPos + roll when no entity starts
\* there, and the end of the entity that starts there otherwise, also when
\* that end is the start of another entity (one jump only).
C2_SingleJump ==
    /\ pc = "setup" =>
          \A currentPos \in 0..cellCount : \A roll \in 1..faceCount :
              LET landed == currentPos + roll
                  result == calculateNewPosition(currentPos, roll, entityMap)
              IN  /\ EntitiesAt(landed) = {} => result = landed
                  /\ \A e \in EntitiesAt(landed) : result = e.end
    /\ (AfterTurn /\ Landed <= cellCount) =>
          LET newPos == currentPosition[lastCall.player]
          IN  /\ newPos = calculateNewPosition(lastCall.from, lastCall.roll,
                                               entityMap)
              /\ EntitiesAt(Landed) = {} => newPos = Landed
              /\ \A e \in EntitiesAt(Landed) : newPos = e.end

\* a player has landed on an entity whose end is the start of a second
\* entity that leads elsewhere, and stands on that end
C2_Witness ==
    /\ AfterTurn
    /\ Landed <= cellCount
    /\ \E e \in EntitiesAt(Landed) :
          /\ currentPosition[lastCall.player] = e.end
          /\ \E f \in EntitiesAt(e.end) : f.end # e.end

\* C3: a turn whose roll overshoots the final cell is refused by
\* isValidMove, leaves every position, every win count and isGameOver as
\* they were, and only moves the active player from the front of the queue
\* to its back.
C3_OvershootForfeits ==
    [][ (TurnStep /\ lastCall'.from + lastCall'.roll > cellCount) =>
          /\ lastCall'.player = Head(turnQueue)
          /\ lastCall'.from = currentPosition[Head(turnQueue)]
          /\ ~isValidMove(lastCall'.from, lastCall'.roll, cellCount)
          /\ currentPosition' = currentPosition
          /\ winCount' = winCount
          /\ isGameOver' = FALSE
          /\ turnQueue' = Tail(turnQueue) \o <<Head(turnQueue)>> ]_vars

\* a turn was forfeited on an overshooting roll
C3_Witness ==
    /\ AfterTurn
    /\ Landed > cellCount
    /\ lastCall.from > 0

C5_GameOverTerminal ==
    [][ /\ isGameOver =>
             /\ isGameOver'
             /\ lastCall'.op # "turn"
             /\ lastCall'.roll = 0
             /\ pc' = "idle"
             /\ \A p \in Players :
                   /\ currentPosition'[p] = currentPosition[p]
                   /\ winCount'[p] = winCount[p]
             /\ SubSeq(turnQueue', 1, Len(turnQueue)) = turnQueue
        /\ (~isGameOver /\ isGameOver') =>
             /\ TurnStep
             /\ currentPosition'[lastCall'.player] = cellCount ]_vars

\* play() has been called again on a finished game
C5_Witness ==
    /\ isGameOver
    /\ lastCall.op = "play"
    /\ subscriberList # <<>>

\* C6: play() with fewer than 2 players changes nothing and notifies no
\* observer; with 2 or more players on an unfinished game it announces the
\* start to every observer and enters the turn loop.
C6_RefusedPlay ==
    [][ (pc = "idle" /\ lastCall'.op = "play") =>
          IF Len(turnQueue) < 2
          THEN /\ events' = <<>>
               /\ pc' = "idle"
               /\ UNCHANGED <<boardVars, faceCount, turnQueue, playerVars,
                              subscriberList, isGameOver>>
          ELSE /\ UNCHANGED <<boardVars, faceCount, turnQueue, playerVars,
                              subscriberList, isGameOver>>
               /\ ~isGameOver => pc' = "playing"
               /\ Len(events') = Len(subscriberList)
               /\ \A i \in 1..Len(subscriberList) :
                     events'[i] = Ev("update", subscriberList[i], GameInitiated)
      ]_vars

\* play() was refused for a game with one player and an observer
C6_Witness ==
    /\ lastCall.op = "play"
    /\ Len(turnQueue) = 1
    /\ subscriberList # <<>>
    /\ pc = "idle"

\* C7: a start cell is written once: a cell that holds an entity keeps that
\* entity and stays closed to canAddEntity; addBoardEntity on such a cell
\* changes nothing; no two placed entities share a start cell.
C7_WriteOnce ==
    [][ /\ \A c \in DOMAIN entityMap :
             /\ ~canAddEntity(entityMap', c)
             /\ getEntity(entityMap', c) = getEntity(entityMap, c)
        /\ lastCall'.op = "addBoardEntity" =>
             IF canAddEntity(entityMap, lastCall'.entity.start)
             THEN /\ ~canAddEntity(entityMap', lastCall'.entity.start)
                  /\ getEntity(entityMap', lastCall'.entity.start)
                        = lastCall'.entity
             ELSE UNCHANGED boardVars
        /\ \A i, j \in 1..Len(entitiesList') :
             entitiesList'[i].start = entitiesList'[j].start => i = j
        /\ \A c \in DOMAIN entityMap' :
             EntitiesAt(c)' = {entityMap'[c]} ]_vars

\* addBoardEntity was called for a cell that another entity holds
C7_Witness ==
    /\ lastCall.op = "addBoardEntity"
    /\ ~canAddEntity(entityMap, lastCall.entity.start)
    /\ getEntity(entityMap, lastCall.entity.start) # lastCall.entity

\* C8: on an overshooting roll every registered observer receives a
\* notification before the player is rotated to the back of the queue.
C8_OvershootNotified ==
    (AfterTurn /\ Landed > cellCount) =>
        \A s \in Subscribers :
            \E k, r \in 1..Len(events) :
                /\ k < r
                /\ events[k].ev = "update"
                /\ events[k].who = s
                /\ events[r].ev = "rotate"

\* the messages a legal turn owes its observers, in order
ExpectedMessages ==
    LET player == lastCall.player
        newPos == currentPosition[player]
        jump == IF EntitiesAt(Landed) = {} THEN <<>>
                ELSE LET e == CHOOSE x \in EntitiesAt(Landed) : TRUE
                     IN  <<Msg(IF e.kind = "SNAKE" THEN "encountered a snake"
                               ELSE "encountered a ladder",
                               player, Landed, newPos)>>
    IN  jump \o <<Msg("completed a move", player, 0, newPos)>>
             \o (IF isGameOver THEN <<Msg("Game concluded", player, 0, 0)>>
                 ELSE <<>>)

\* C9: a legal turn first updates the position, then sends the jump event
\* (iff the landed cell holds an entity), the move-completed event and the
\* game-concluded event (iff the move wins), each exactly once to every
\* subscriber in registration order.
C9_NotificationOrder ==
    (AfterTurn /\ Landed <= cellCount) =>
        LET n == Len(subscriberList)
            updates == SelectSeq(events, LAMBDA x : x.ev = "update")
        IN  /\ events # <<>>
            /\ events[1].ev = "setPosition"
            /\ \A k \in 2..Len(events) : events[k].ev # "setPosition"
            /\ Len(updates) = Len(ExpectedMessages) * n
            /\ \A m \in 1..Len(ExpectedMessages) : \A i \in 1..n :
                  updates[(m - 1) * n + i]
                     = Ev("update", subscriberList[i], ExpectedMessages[m])

\* a turn that jumped and won, watched by two observers
C9_Witness ==
    /\ AfterTurn
    /\ Landed < cellCount
    /\ EntitiesAt(Landed) # {}
    /\ isGameOver
    /\ Len(subscriberList) >= 2

\* C10: while isGameOver is false every win count is 0; once it is true
\* exactly one player has win count 1 and the others 0, and that player is
\* at the front of the queue and is the only one standing on the final cell.
C10_SingleWinner ==
    /\ ~isGameOver => \A p \in Players : winCount[p] = 0
    /\ isGameOver =>
          /\ turnQueue # <<>>
          /\ winCount[Head(turnQueue)] = 1
          /\ \A p \in Players : p # Head(turnQueue) => winCount[p] = 0
          /\ \A p \in Players :
                currentPosition[p] = cellCount <=> p = Head(turnQueue)

\* the second registered player has won
C10_Witness ==
    /\ isGameOver
    /\ Head(turnQueue) = 2
    /\ winCount[2] = 1

\* C11: every player's position lies within 0..cellCount in every
\* reachable state, whatever pairs the caller placed on the board.
C11_PositionInRange ==
    \A p \in Players : currentPosition[p] \in 0..cellCount

\* C12: a turn leaves the board, the subscribers and every other player's
\* position and win count as they were; it changes the active player's
\* position, the order of the queue and, only on a win, that player's win
\* count and isGameOver.
C12_TurnFrame ==
    [][ TurnStep =>
          LET active == lastCall'.player
          IN  /\ UNCHANGED <<boardVars, faceCount, subscriberList>>
              /\ DOMAIN currentPosition' = DOMAIN currentPosition
              /\ DOMAIN winCount' = DOMAIN winCount
              /\ \A p \in Players :
                    p # active =>
                       /\ currentPosition'[p] = currentPosition[p]
                       /\ winCount'[p] = winCount[p]
              /\ (winCount'[active] # winCount[active]
                     \/ isGameOver' # isGameOver) =>
                    /\ currentPosition'[active] = cellCount
                    /\ winCount'[active] = winCount[active] + 1
                    /\ isGameOver'
              /\ {turnQueue'[i] : i \in 1..Len(turnQueue')}
                    = {turnQueue[i] : i \in 1..Len(turnQueue)} ]_vars

\* a legal turn has moved its player while another player stands elsewhere
\* on the board
C12_Witness ==
    /\ AfterTurn
    /\ Landed <= cellCount
    /\ currentPosition[lastCall.player] # lastCall.from
    /\ \E p \in Players :
          /\ p # lastCall.player
          /\ currentPosition[p] > 0
          /\ currentPosition[p] # currentPosition[lastCall.player]

\* C20: the turn queue is a permutation of the registered players: it has
\* one entry per registered player and names each of them once.
C20_QueueIsPermutation ==
    /\ Len(turnQueue) = Len(currentPosition)
    /\ {turnQueue[i] : i \in 1..Len(turnQueue)} = Players
    /\ \A i, j \in 1..Len(turnQueue) : turnQueue[i] = turnQueue[j] => i = j

\* the queue has been rotated by turns of either kind
C20_Witness ==
    /\ AfterTurn
    /\ pc = "playing"
    /\ Landed > cellCount
    /\ Head(turnQueue) # 1

----------------------------------------------------------------------------
(* Properties of the setup strategies *)

\* the entities the strategy has added to the board so far
AddedEntities == SubSeq(entitiesList, strategy.base + 1, Len(entitiesList))

\* the start cells the board held before the strategy ran
StartsBefore == {entitiesList[k].start : k \in 1..strategy.base}

CountKind(seq, kind) == Cardinality({k \in 1..Len(seq) : seq[k].kind = kind})

\* C13: when CustomCount with random placement returns it has added
\* exactly snakeCount snakes and ladderCount ladders, on pairwise distinct
\* start cells that were free before, every snake with end < start and
\* every ladder with start < end < cellCount.
C13_CustomRandomResult ==
    (strategy.kind = "customRandom" /\ strategy.phase = "done") =>
        /\ CountKind(AddedEntities, "SNAKE") = strategy.snakeCount
        /\ CountKind(AddedEntities, "LADDER") = strategy.ladderCount
        /\ Len(AddedEntities) = strategy.snakeCount + strategy.ladderCount
        /\ \A j, k \in 1..Len(entitiesList) :
              entitiesList[j].start = entitiesList[k].start => j = k
        /\ \A k \in 1..Len(AddedEntities) :
              LET e == AddedEntities[k]
              IN  /\ e.start \notin StartsBefore
                  /\ getEntity(entityMap, e.start) = e
                  /\ e.kind = "SNAKE" => e.end < e.start
                  /\ e.kind = "LADDER" =>
                        e.start < e.end /\ e.end < cellCount

\* the strategy has returned after placing two snakes and a ladder on a
\* board that held entities before
C13_Witness ==
    /\ strategy.kind = "customRandom"
    /\ strategy.phase = "done"
    /\ strategy.base > 0
    /\ strategy.snakeCount >= 2
    /\ strategy.ladderCount >= 1

\* the entities of the supplied pairs, snakes first
Supplied(st) == SnakesOf(st.snakePlacements) \o LaddersOf(st.ladderPlacements)

\* the first supplied entity that starts at cell c
FirstSupplied(st, c) ==
    LET seq == Supplied(st)
        first == CHOOSE k \in 1..Len(seq) :
                    /\ seq[k].start = c
                    /\ \A j \in 1..(k - 1) : seq[j].start # c
    IN  seq[first]

\* C14: CustomCount with supplied positions leaves the entities already on
\* the board as they are, and for every other start cell the board ends up
\* with the first supplied pair for that cell, snake pairs counting before
\* ladder pairs; later pairs for the cell are skipped.
C14_SuppliedFirstWins ==
    [][ (strategy.kind = "none" /\ strategy'.kind = "customPlaced") =>
          LET seq == Supplied(strategy')
              starts == {seq[k].start : k \in 1..Len(seq)}
              fresh == starts \ DOMAIN entityMap
              added == SubSeq(entitiesList', Len(entitiesList) + 1,
                              Len(entitiesList'))
          IN  /\ SubSeq(entitiesList', 1, Len(entitiesList)) = entitiesList
              /\ \A c \in DOMAIN entityMap : getEntity(entityMap', c) = entityMap[c]
              /\ DOMAIN entityMap' = DOMAIN entityMap \cup starts
              /\ \A c \in fresh :
                    getEntity(entityMap', c) = FirstSupplied(strategy', c)
              /\ Len(added) = Cardinality(fresh)
              /\ \A k \in 1..Len(added) :
                    added[k] = FirstSupplied(strategy', added[k].start)
              /\ \A j, k \in 1..Len(added) :
                    (j < k /\ added[j].kind = "LADDER")
                       => added[k].kind = "LADDER" ]_vars

\* a snake pair and a ladder pair were supplied for the same free cell, and
\* another pair for a cell the board already held
C14_Witness ==
    /\ strategy.kind = "customPlaced"
    /\ \E j \in 1..Len(strategy.snakePlacements) :
       \E k \in 1..Len(strategy.ladderPlacements) :
          /\ strategy.snakePlacements[j][1] = strategy.ladderPlacements[k][1]
          /\ strategy.snakePlacements[j][1] \notin StartsBefore
    /\ \E k \in 1..Len(strategy.ladderPlacements) :
          strategy.ladderPlacements[k][1] \in StartsBefore

\* C15: the standard strategy leaves a board that does not have 100 cells
\* exactly as it was.
C15_StandardNeeds100 ==
    [][ (strategy.kind = "none" /\ strategy'.kind = "standard"
            /\ cellCount # 100) => UNCHANGED boardVars ]_vars

\* the standard strategy has run on a board of another size that held
\* entities
C15_Witness ==
    /\ strategy.kind = "standard"
    /\ cellCount # 100
    /\ entitiesList # <<>>

\* the free cells among a..b
FreeIn(a, b) == Cardinality({c \in a..b : canAddEntity(entityMap, c)})

\* setupBoard has just been entered with random placement
CustomRandomEntered ==
    lastCall.op = "setupBoard" /\ strategy.kind = "customRandom"

\* the snake loop has more snakes to place than free start cells to draw
SnakeLoopStarved ==
    /\ strategy.kind = "customRandom"
    /\ strategy.phase = "snakes"
    /\ strategy.snakeCount - strategy.snakesAdded > FreeIn(10, cellCount - 1)

RandomEntered == strategy.kind = "random"

RandomDone == strategy.kind = "random" /\ strategy.phase = "done"

\* the step is one iteration of a while loop of setupWithProbability
RandomAttemptStep ==
    /\ strategy.kind = "random"
    /\ lastCall'.op \in {"randomSnakeAttempt", "randomLadderAttempt"}

\* C16: RandomBoardSetupStrategy always returns, whatever is drawn and
\* whatever the board holds: a slot sees at most 50 attempts, each either
\* placing one entity and ending the slot or counting as a failure; there
\* are cellCount/10 slots, and never more entities added than slots done.
C16_RandomTerminates ==
    /\ RandomEntered ~> RandomDone
    /\ [](RandomEntered =>
            /\ strategy.attemptCount <= MaxAttempts
            /\ strategy.i <= cellCount \div 10
            /\ Len(AddedEntities) <= strategy.i)
    /\ [][ RandomAttemptStep =>
             /\ strategy.attemptCount < MaxAttempts
             /\ \/ /\ Len(entitiesList') = Len(entitiesList) + 1
                   /\ strategy'.i = strategy.i + 1
                \/ /\ UNCHANGED boardVars
                   /\ strategy'.i = strategy.i
                   /\ strategy'.attemptCount = strategy.attemptCount + 1 ]_vars
    /\ [][ (RandomEntered /\ ~RandomAttemptStep) => UNCHANGED boardVars ]_vars

\* the strategy has returned from a board with two slots and no free start
\* cell: the last slot was given up after its 50 attempts, nothing was added
C16_Witness ==
    /\ RandomDone
    /\ lastCall.op = "randomAbandon"
    /\ strategy.i = 2
    /\ AddedEntities = <<>>

\* C17: on a board of more than 10 cells every entity RandomBoardSetupStrategy
\* places lies inside the board: a snake has 10 <= start <= cellCount-1 and
\* 1 <= end < start, a ladder 1 <= start <= cellCount-10 and
\* start < end < cellCount; none starts or ends on cell 0 or the final cell.
C17_RandomWellFormed ==
    (RandomEntered /\ cellCount > 10) =>
        \A k \in 1..Len(AddedEntities) :
            LET e == AddedEntities[k]
            IN  /\ e.kind = "SNAKE" =>
                      /\ 10 <= e.start /\ e.start <= cellCount - 1
                      /\ 1 <= e.end /\ e.end < e.start
                /\ e.kind = "LADDER" =>
                      /\ 1 <= e.start /\ e.start <= cellCount - 10
                      /\ e.start < e.end /\ e.end < cellCount
                /\ {e.start, e.end} \cap {0, cellCount} = {}

\* the strategy has returned after placing a snake on the last cell a snake
\* can start on and a ladder on the last cell a ladder can start on
C17_Witness ==
    /\ RandomDone
    /\ \E j, k \in 1..Len(AddedEntities) :
          /\ AddedEntities[j].kind = "SNAKE"
          /\ AddedEntities[j].start = cellCount - 1
          /\ AddedEntities[k].kind = "LADDER"
          /\ AddedEntities[k].start = cellCount - 10

\* C18: on the standard board with a 6-faced dice and two players the
\* loop of play() is left only by a win of the player who moved; every
\* player stands on a cell from which the final cell can still be reached;
\* and with fair dice a game that is being played is eventually over.
C18_StandardGameEnds ==
    /\ [][ (pc = "playing" /\ pc' # "playing") =>
             /\ isGameOver'
             /\ checkWinCondition(currentPosition'[lastCall'.player], cellCount)
             /\ winCount'[lastCall'.player] = winCount[lastCall'.player] + 1 ]_vars
    /\ [](pc = "playing" =>
            /\ entityMap = StandardMap
            /\ Len(turnQueue) >= MinPlayers
            /\ \A p \in Players : currentPosition[p] \in WinnableCells)
    /\ (pc = "playing") ~> isGameOver

\* a standard game has ended by a win while the other player stood two
\* cells short of the final one
C18_Witness ==
    /\ isGameOver
    /\ AfterTurn
    /\ entityMap = StandardMap
    /\ Len(turnQueue) = MinPlayers
    /\ \E p \in Players : currentPosition[p] = cellCount - 2

\* the start cells of the entities on the board
EntityStarts == {entitiesList[k].start : k \in 1..Len(entitiesList)}

\* the end cells of the entities on the board
EntityEnds == {entitiesList[k].end : k \in 1..Len(entitiesList)}

\* C21: the standard strategy puts all 21 entities on an empty 100-cell
\* board, 10 snakes and 11 ladders, on pairwise distinct start cells, every
\* snake with end < start, every ladder with end > start, all starts and
\* ends in 1..99, and no end on another entity's start; a move on this
\* board never leaves a player on an entity's start cell.
C21_StandardBoardComplete ==
    (strategy.kind = "standard" /\ strategy.base = 0 /\ cellCount = 100) =>
        /\ Len(entitiesList) = 21
        /\ CountKind(entitiesList, "SNAKE") = 10
        /\ CountKind(entitiesList, "LADDER") = 11
        /\ Cardinality(EntityStarts) = Len(entitiesList)
        /\ \A k \in 1..Len(entitiesList) :
              LET e == entitiesList[k]
              IN  /\ getEntity(entityMap, e.start) = e
                  /\ e.kind = "SNAKE" => e.end < e.start
                  /\ e.kind = "LADDER" => e.end > e.start
                  /\ e.start \in 1..(cellCount - 1)
                  /\ e.end \in 1..(cellCount - 1)
        /\ EntityStarts \cap EntityEnds = {}
        /\ \A p \in Players : currentPosition[p] \notin EntityStarts

\* on the standard board a player has just climbed the ladder from 78 to
\* 98, the cell below a snake's head
C21_Witness ==
    /\ strategy.kind = "standard"
    /\ Len(entitiesList) = 21
    /\ AfterTurn
    /\ Landed = 78
    /\ currentPosition[lastCall.player] = 98

\* an entity starts on the final cell and ends elsewhere, and no entity ends
\* on the final cell
FinalCellTrapped ==
    /\ \E k \in 1..Len(entitiesList) :
          /\ entitiesList[k].start = cellCount
          /\ entitiesList[k].end # cellCount
          /\ getEntity(entityMap, cellCount) = entitiesList[k]
    /\ cellCount \notin EntityEnds

\* C22: on a board whose final cell is the start of an entity that ends
\* elsewhere, with no entity ending on the final cell, gameOver is never
\* set and play()'s loop, once entered, is never left.
C22_TrappedFinalCell ==
    /\ [](FinalCellTrapped => ~isGameOver)
    /\ [][ (FinalCellTrapped /\ pc = "playing") => pc' = "playing" ]_vars

\* on such a board a player has landed exactly on the final cell and been
\* moved to the entity's end; the game goes on
C22_Witness ==
    /\ FinalCellTrapped
    /\ AfterTurn
    /\ Landed = cellCount
    /\ currentPosition[lastCall.player] # cellCount
    /\ pc = "playing"

====
